---- MODULE Spec2Model ----
(***************************************************************************)
(* A model of fastqio/fastq.py: FASTQReader, its chunk loader, the         *)
(* ThreadPoolExecutor scatter and the as_completed gather of its bulk      *)
(* operations (count_reads, trim, filter_quality, extract) and the lazy    *)
(* record generator.                                                       *)
(*                                                                         *)
(* A string is a sequence of character codes; a line of the file carries   *)
(* its trailing newline (code 10), which the readers strip.                *)
(***************************************************************************)
EXTENDS Integers, Sequences, FiniteSets, TLC

\* ---------------------------------------------------------------- bounds
MaxLines == 8         \* lines of the file
MaxThread == 2        \* FASTQReader(thread=...)
MaxChunk == 2         \* FASTQReader(chunk_size=...)
MaxTrim == 2          \* five_prime, three_prime of trim
MaxYield == 3         \* records one generator is asked for

VARIABLES
    file,        \* the lines of the file at file_path
    thread,      \* self.thread
    chunk_size,  \* self.chunk_size
    fileOpen,    \* self._file is an open handle
    pos,         \* lines of self._file already consumed
    pc,          \* where the caller is: idle, load, gather, returned, raised
    call,        \* the bulk operation in progress (or last run) and its arguments
    futures,     \* the futures list of the operation, in submission order
    finished,    \* as_completed: futures already done when it was called, not yet yielded
    pending,     \* as_completed: futures not done when it was called, not yet yielded
    waiter,      \* as_completed: waiter.finished_futures, in completion order
    acc,         \* trimmed_records / filtered_records / extracted being built
    count,       \* the count of count_reads being built
    ret,         \* what the last operation returned
    shutdown,    \* executor.shutdown() of the operation's pool has run
    sink,        \* the column the operation wrote to its parquet file
    before,      \* the cursor of self._file when the operation was called
    gen,         \* the generator returned by __iter__: none, active, done
    yielded,     \* the records that generator has yielded
    last         \* the previous call and what it returned, kept while the same call is
                 \* repeated or filter_quality follows filter_quality

vars == <<file, thread, chunk_size, fileOpen, pos, pc, call, futures, finished,
          pending, waiter, acc, count, ret, shutdown, sink, before, gen, yielded,
          last>>

\* ------------------------------------------------------------- utilities
Min(a, b) == IF a < b THEN a ELSE b
Max(a, b) == IF a > b THEN a ELSE b

RECURSIVE Concat(_)
Concat(ss) == IF ss = <<>> THEN <<>> ELSE Head(ss) \o Concat(Tail(ss))

RECURSIVE Sum(_)
Sum(s) == IF s = <<>> THEN 0 ELSE Head(s) + Sum(Tail(s))

\* str.rstrip("\n")
RECURSIVE Rstrip(_)
Rstrip(s) ==
    IF s # <<>> /\ s[Len(s)] = 10 THEN Rstrip(SubSeq(s, 1, Len(s) - 1)) ELSE s

\* Python's s[start:end] for integer start and end
Slice(s, start, end) ==
    LET n == Len(s)
        lo == IF start < 0 THEN Max(n + start, 0) ELSE Min(start, n)
        hi == IF end < 0 THEN Max(n + end, 0) ELSE Min(end, n)
    IN  IF lo >= hi THEN <<>> ELSE SubSeq(s, lo + 1, hi)

\* ------------------------------------------------------------ the inputs
SeqPool == { <<65, 67, 71, 84, 10>>, <<84, 71, 10>> }       \* "ACGT", "TG"
QualPool == { <<73, 73, 73, 73, 10>>, <<33, 53, 10>>, <<10>> }  \* "IIII", "!5", ""

\* the file holds a header, a sequence, a plus and a quality line in turn;
\* the lines that may stand at 0-based index i of a file
LineChoices(i) ==
    CASE i % 4 = 0 -> { <<64, 49 + (i \div 4), 10>> }    \* "@1", "@2", ...
      [] i % 4 = 1 -> SeqPool
      [] i % 4 = 2 -> { <<43, 10>> }                      \* "+"
      [] OTHER     -> QualPool

RECURSIVE FilesOfLen(_)
FilesOfLen(n) ==
    IF n = 0 THEN { <<>> }
    ELSE { Append(f, l) : f \in FilesOfLen(n - 1), l \in LineChoices(n - 1) }

Files == UNION { FilesOfLen(n) : n \in 0..MaxLines }

Thresholds == { 0, 20, 40 }
StartVals == { -1, 0, 5 }
EndVals == { -1, 2 }

NoCall == [name |-> "none", five_prime |-> 0, three_prime |-> 0, threshold |-> 0,
           start |-> 0, end |-> 0, save_parquet |-> FALSE, typed |-> TRUE]
NoRet == [kind |-> "none", list |-> <<>>, n |-> 0]
NoLast == [set |-> FALSE, call |-> NoCall, ret |-> NoRet]

\* ------------------------------------------------------------ load_chunk
\* variant: range(chunk_size * 4 - 1), a chunk one line short
LoadChunkCut(f, p, cs) ==
    [i \in 1..Min(cs * 4 - 1, Len(f) - p) |-> Rstrip(f[p + i])]

\* load_chunk(file_handle, chunk_size) on a handle that has consumed p lines
LoadChunk(f, p, cs) ==
    [i \in 1..Min(cs * 4, Len(f) - p) |-> Rstrip(f[p + i])]

\* ------------------------------------------------- grouping of the lines
\* variant: the quality taken from lines[i+2], the plus line
GroupRecordsPlus(lines) ==
    LET starts == { i \in 0..(Len(lines) - 1) : i % 4 = 0 /\ i + 3 < Len(lines) }
    IN  [k \in 1..Cardinality(starts) |->
            <<lines[4 * (k - 1) + 1], lines[4 * (k - 1) + 2], lines[4 * (k - 1) + 3]>>]

\* trim, filter_quality: for i in range(0, len(lines), 4): if i + 3 < len(lines)
GroupRecords(lines) ==
    LET starts == { i \in 0..(Len(lines) - 1) : i % 4 = 0 /\ i + 3 < Len(lines) }
    IN  [k \in 1..Cardinality(starts) |->
            <<lines[4 * (k - 1) + 1], lines[4 * (k - 1) + 2], lines[4 * (k - 1) + 4]>>]

\* extract: for i in range(0, len(lines), 4): if i + 1 < len(lines)
GroupSeqs(lines) ==
    LET starts == { i \in 0..(Len(lines) - 1) : i % 4 = 0 /\ i + 1 < Len(lines) }
    IN  [k \in 1..Cardinality(starts) |-> lines[4 * (k - 1) + 2]]

\* ------------------------------------------------------------ transforms
\* variant: a partial group counted as a record
CountTransformCeil(lines) == (Len(lines) + 3) \div 4

\* count_reads: lambda l: len(l) // 4
CountTransform(lines) == Len(lines) \div 4

\* extract: lambda recs: [seq[start:end] for seq in recs]
ExtractTransform(recs, start, end) ==
    [k \in 1..Len(recs) |-> Slice(recs[k], start, end)]

\* the substring of s from index five_prime to len(s) - three_prime
TrimStr(s, five_prime, three_prime) ==
    IF five_prime >= Len(s) - three_prime THEN <<>>
    ELSE SubSeq(s, five_prime + 1, Len(s) - three_prime)

\* fastq_cython.trim_records_cython: the same excision on seq and quality, both
\* empty when five_prime + three_prime >= len(seq), info passed through
trim_records_cython(records, five_prime, three_prime) ==
    [k \in 1..Len(records) |->
        IF five_prime + three_prime >= Len(records[k][2])
        THEN <<records[k][1], <<>>, <<>>>>
        ELSE <<records[k][1], TrimStr(records[k][2], five_prime, three_prime),
               TrimStr(records[k][3], five_prime, three_prime)>>]

\* the Phred+33 scores of a quality string, summed
PhredSum(quality) == Sum([k \in 1..Len(quality) |-> quality[k] - 33])

\* the average of a non-empty quality string reaches the threshold
PassesQuality(rec, threshold) ==
    /\ Len(rec[3]) > 0
    /\ PhredSum(rec[3]) >= threshold * Len(rec[3])

\* fastq_cython.filter_quality_cython: the records whose average score is >= threshold
filter_quality_cython(records, threshold) ==
    SelectSeq(records, LAMBDA rec : PassesQuality(rec, threshold))

\* ------------------------------------------------- the submitted task
\* the argument handed to executor.submit for a chunk of lines
TaskInput(c, lines) ==
    CASE c.name = "count_reads" -> lines
      [] c.name = "extract"     -> GroupSeqs(lines)
      [] OTHER                  -> GroupRecords(lines)

\* the task raises: a slice index that is no integer, on the first sequence
TaskRaises(c, input) ==
    c.name = "extract" /\ ~c.typed /\ input # <<>>

\* the value the task returns
TaskResult(c, input) ==
    CASE c.name = "count_reads"    -> CountTransform(input)
      [] c.name = "trim"           -> trim_records_cython(input, c.five_prime, c.three_prime)
      [] c.name = "filter_quality" -> filter_quality_cython(input, c.threshold)
      [] OTHER                     -> ExtractTransform(input, c.start, c.end)

\* ----------------------------------------------------------------- Init
Init ==
    /\ file \in Files
    /\ thread \in 1..MaxThread
    /\ chunk_size \in 1..MaxChunk
    /\ fileOpen = FALSE
    /\ pos = 0
    /\ pc = "idle"
    /\ call = NoCall
    /\ futures = <<>>
    /\ finished = {}
    /\ pending = {}
    /\ waiter = <<>>
    /\ acc = <<>>
    /\ count = 0
    /\ ret = NoRet
    /\ shutdown = FALSE
    /\ sink = <<>>
    /\ before = 0
    /\ gen = "none"
    /\ yielded = <<>>
    /\ last = NoLast

\* -------------------------------------------------------------- actions
\* variant: the file opened only when no handle is open yet
reset_file_lazy ==
    /\ fileOpen' = TRUE
    /\ pos' = IF fileOpen THEN pos ELSE 0

\* _reset_file: close the handle if there is one, open the file anew
reset_file ==
    /\ fileOpen' = TRUE
    /\ pos' = 0

\* the caller is in no bulk operation
CallerFree == pc \in {"idle", "returned", "raised"}

\* the first lines of every bulk operation: self._reset_file(), the empty
\* result, a new ThreadPoolExecutor and an empty futures list
Begin(c) ==
    /\ CallerFree
    /\ reset_file
    /\ pc' = "load"
    /\ call' = c
    /\ futures' = <<>>
    /\ finished' = {}
    /\ pending' = {}
    /\ waiter' = <<>>
    /\ acc' = <<>>
    /\ count' = 0
    /\ ret' = NoRet
    /\ shutdown' = FALSE
    /\ last' = IF /\ pc = "returned"
                  /\ \/ c = call
                     \/ c.name = "filter_quality" /\ call.name = "filter_quality"
               THEN [set |-> TRUE, call |-> call, ret |-> ret]
               ELSE NoLast
    /\ sink' = <<>>
    /\ before' = pos
    /\ UNCHANGED <<file, thread, chunk_size, gen, yielded>>

count_reads ==
    Begin([NoCall EXCEPT !.name = "count_reads"])

trim ==
    \E five_prime \in 0..MaxTrim, three_prime \in 0..MaxTrim :
        Begin([NoCall EXCEPT !.name = "trim", !.five_prime = five_prime,
                             !.three_prime = three_prime])

filter_quality ==
    \E threshold \in Thresholds :
        Begin([NoCall EXCEPT !.name = "filter_quality", !.threshold = threshold])

extract ==
    \E start \in StartVals, end \in EndVals, save_parquet \in BOOLEAN, typed \in BOOLEAN :
        \* typed = FALSE: start is no integer (a str, a float); one such call is enough
        /\ ~typed => (start = 0 /\ end = 2)
        /\ Begin([NoCall EXCEPT !.name = "extract", !.start = start, !.end = end,
                                !.save_parquet = save_parquet, !.typed = typed])

\* the future executor.submit returns for the chunk of lines read at cursor p;
\* nlines, runs and merges record the chunk's size, the times a worker took the
\* work item and the times the gather loop merged its result
NewFuture(c, lines, p) ==
    [input |-> TaskInput(c, lines), state |-> "PENDING", raised |-> FALSE,
     result |-> IF c.name = "count_reads" THEN 0 ELSE <<>>,
     first |-> p, nlines |-> Len(lines), runs |-> 0, merges |-> 0]

\* variant: the chunk is submitted twice
SubmitTwice(fs, c, lines, p) ==
    fs \o <<NewFuture(c, lines, p), NewFuture(c, lines, p)>>

\* futures.append(executor.submit(transform, records, ...))
Submit(fs, c, lines, p) ==
    Append(fs, NewFuture(c, lines, p))

\* one pass of the while True loop: load_chunk, then break or submit
Load ==
    /\ pc = "load"
    /\ LET lines == LoadChunk(file, pos, chunk_size) IN
        /\ pos' = pos + Len(lines)
        /\ IF lines = <<>>
           THEN \* break; as_completed(futures) takes its snapshot and installs its waiter
                /\ pc' = "gather"
                /\ finished' = { i \in 1..Len(futures) : futures[i].state = "FINISHED" }
                /\ pending' = { i \in 1..Len(futures) : futures[i].state # "FINISHED" }
                /\ UNCHANGED futures
           ELSE /\ futures' = Submit(futures, call, lines, pos)
                /\ UNCHANGED <<pc, finished, pending>>
    /\ UNCHANGED <<file, thread, chunk_size, fileOpen, call, waiter, acc, count, ret,
                   shutdown, sink, before, gen, yielded, last>>

\* the work items a pool thread is running
Running == { i \in 1..Len(futures) : futures[i].state = "RUNNING" }

\* variant: ThreadPoolExecutor() with no max_workers=self.thread, a thread per item
WorkerStartUnbounded ==
    /\ ~shutdown
    /\ \E i \in 1..Len(futures) :
        /\ futures[i].state = "PENDING"
        /\ \A j \in 1..(i - 1) : futures[j].state # "PENDING"
        /\ futures' = [futures EXCEPT ![i].state = "RUNNING", ![i].runs = @ + 1]
    /\ UNCHANGED <<file, thread, chunk_size, fileOpen, pos, pc, call, finished, pending,
                   waiter, acc, count, ret, shutdown, sink, before, gen, yielded, last>>

\* variant: max_workers=self.thread - 1, a pool one thread short
WorkerStartShort ==
    /\ ~shutdown
    /\ Cardinality(Running) < thread - 1
    /\ \E i \in 1..Len(futures) :
        /\ futures[i].state = "PENDING"
        /\ \A j \in 1..(i - 1) : futures[j].state # "PENDING"
        /\ futures' = [futures EXCEPT ![i].state = "RUNNING", ![i].runs = @ + 1]
    /\ UNCHANGED <<file, thread, chunk_size, fileOpen, pos, pc, call, finished, pending,
                   waiter, acc, count, ret, shutdown, sink, before, gen, yielded, last>>

\* a pool thread takes the oldest work item of the queue
WorkerStart ==
    /\ ~shutdown
    /\ Cardinality(Running) < thread
    /\ \E i \in 1..Len(futures) :
        /\ futures[i].state = "PENDING"
        /\ \A j \in 1..(i - 1) : futures[j].state # "PENDING"
        /\ futures' = [futures EXCEPT ![i].state = "RUNNING", ![i].runs = @ + 1]
    /\ UNCHANGED <<file, thread, chunk_size, fileOpen, pos, pc, call, finished, pending,
                   waiter, acc, count, ret, shutdown, sink, before, gen, yielded, last>>

\* the work item ends: set_result or set_exception, which notifies the waiter
WorkerFinish ==
    /\ \E i \in Running :
        /\ futures' = [futures EXCEPT
                ![i].state = "FINISHED",
                ![i].raised = TaskRaises(call, futures[i].input),
                ![i].result = IF TaskRaises(call, futures[i].input) THEN @
                              ELSE TaskResult(call, futures[i].input)]
        /\ waiter' = IF pc = "gather" /\ i \in pending THEN Append(waiter, i) ELSE waiter
    /\ UNCHANGED <<file, thread, chunk_size, fileOpen, pos, pc, call, finished, pending,
                   acc, count, ret, shutdown, sink, before, gen, yielded, last>>

\* variant: only the first record of a batch is appended
MergedFirst(c, result) ==
    IF c.name = "count_reads" \/ result = <<>> THEN <<>> ELSE <<Head(result)>>

\* variant: the records of a batch are appended last to first
MergedReversed(c, result) ==
    IF c.name = "count_reads" THEN <<>>
    ELSE [k \in 1..Len(result) |-> result[Len(result) + 1 - k]]

\* what the body of the for loop appends for one future's result
Merged(c, result) ==
    IF c.name = "count_reads" THEN <<>> ELSE result

\* one pass of: for future in as_completed(futures): ... future.result() ...
\* as_completed yields the futures that were done when it was called first, as
\* list(set), in no fixed order; then the others as they complete
Gather ==
    /\ pc = "gather"
    /\ \E i \in 1..Len(futures) :
        /\ IF finished # {} THEN i \in finished
           ELSE waiter # <<>> /\ i = Head(waiter)
        /\ finished' = finished \ {i}
        /\ pending' = pending \ {i}
        /\ waiter' = IF finished # {} THEN waiter ELSE Tail(waiter)
        /\ IF futures[i].raised
           THEN /\ pc' = "raised"
                /\ UNCHANGED <<acc, count, futures>>
           ELSE /\ pc' = pc
                /\ futures' = [futures EXCEPT ![i].merges = @ + 1]
                /\ acc' = acc \o Merged(call, futures[i].result)
                /\ count' = IF call.name = "count_reads" THEN count + futures[i].result
                            ELSE count
    /\ UNCHANGED <<file, thread, chunk_size, fileOpen, pos, call, ret,
                   shutdown, sink, before, gen, yielded, last>>

\* the loop is over: executor.shutdown(), self._reset_file(), return
Return ==
    /\ pc = "gather"
    /\ finished = {}
    /\ pending = {}
    /\ shutdown' = TRUE
    /\ reset_file
    /\ pc' = "returned"
    /\ ret' = CASE call.name = "count_reads" -> [kind |-> "int", list |-> <<>>, n |-> count]
                [] call.name = "extract" /\ call.save_parquet ->
                                            [kind |-> "None", list |-> <<>>, n |-> 0]
                [] OTHER -> [kind |-> "list", list |-> acc, n |-> 0]
    /\ sink' = IF call.name = "extract" /\ call.save_parquet THEN acc ELSE sink
    /\ UNCHANGED <<file, thread, chunk_size, call, futures, finished, pending, waiter,
                   acc, count, before, gen, yielded, last>>

\* the caller has left the bulk operation: its locals and its return value are gone
Forget ==
    /\ call' = NoCall
    /\ futures' = <<>>
    /\ finished' = {}
    /\ pending' = {}
    /\ waiter' = <<>>
    /\ acc' = <<>>
    /\ count' = 0
    /\ ret' = NoRet
    /\ shutdown' = FALSE
    /\ sink' = <<>>
    /\ before' = 0
    /\ last' = NoLast

\* variant: the plus line is not skipped, and is taken as the quality
record_generator_plus(f, p) ==
    IF p + 3 <= Len(f)
    THEN <<<<Rstrip(f[p + 1]), Rstrip(f[p + 2]), Rstrip(f[p + 3])>>>>
    ELSE <<>>

\* _record_generator run to its end on a handle that has consumed p lines:
\* the records of list(reader)
RECURSIVE record_generator(_, _)
record_generator(f, p) ==
    IF p + 4 <= Len(f)
    THEN <<<<Rstrip(f[p + 1]), Rstrip(f[p + 2]), Rstrip(f[p + 4])>>>>
         \o record_generator(f, p + 4)
    ELSE <<>>

\* __iter__: self._reset_file(); return self._record_generator()
Iter ==
    /\ CallerFree
    /\ reset_file
    /\ pc' = "idle"
    /\ gen' = "active"
    /\ yielded' = <<>>
    /\ Forget
    /\ UNCHANGED <<file, thread, chunk_size>>

\* one next() of the generator: four next(self._file), or StopIteration on the way
GenNext ==
    /\ CallerFree
    /\ gen = "active"
    /\ Len(yielded) < MaxYield
    /\ pc' = "idle"
    /\ IF pos + 4 <= Len(file)
       THEN /\ yielded' = Append(yielded, Head(record_generator(file, pos)))
            /\ pos' = pos + 4
            /\ gen' = gen
       ELSE /\ pos' = Len(file)
            /\ gen' = "done"
            /\ yielded' = yielded
    /\ Forget
    /\ UNCHANGED <<file, thread, chunk_size, fileOpen>>

Next ==
    \/ count_reads
    \/ trim
    \/ filter_quality
    \/ extract
    \/ Load
    \/ WorkerStart
    \/ WorkerFinish
    \/ Gather
    \/ Return

Spec == Init /\ [][Next]_vars

\* a caller that iterates and calls count_reads between the steps as it likes
NextIter ==
    \/ Iter
    \/ GenNext
    \/ count_reads
    \/ Load
    \/ WorkerStart
    \/ WorkerFinish
    \/ Gather
    \/ Return

SpecIter == Init /\ [][NextIter]_vars

\* a caller that only iterates
NextIterate ==
    \/ Iter
    \/ GenNext

SpecIterate == Init /\ [][NextIterate]_vars

\* one bulk operation on a new Reader, from the call to its end
CallOnce ==
    /\ pc = "idle"
    /\ \/ count_reads
       \/ trim
       \/ filter_quality
       \/ extract

NextFair ==
    \/ CallOnce
    \/ Load
    \/ WorkerStart
    \/ WorkerFinish
    \/ Gather
    \/ Return

\* the caller's thread goes on through its loops, a pool thread takes a queued
\* work item, and a work item that has started ends
SpecFair ==
    /\ Init
    /\ [][NextFair]_vars
    /\ WF_vars(Load)
    /\ WF_vars(WorkerStart)
    /\ WF_vars(WorkerFinish)
    /\ WF_vars(Gather)
    /\ WF_vars(Return)

\* ------------------------------------------------------------ properties
Range(s) == { s[k] : k \in 1..Len(s) }

\* a bulk operation that builds a list has returned
ListReturned ==
    pc = "returned" /\ call.name \in {"trim", "filter_quality", "extract"}

\* the records of the file: its complete 4-line groups, in file order
Records == record_generator(file, 0)

\* the operation run with no pool: each chunk loaded, transformed and merged in turn
RECURSIVE SequentialRun(_, _)
SequentialRun(c, p) ==
    LET lines == LoadChunk(file, p, chunk_size)
    IN  IF lines = <<>> THEN <<>>
        ELSE TaskResult(c, TaskInput(c, lines)) \o SequentialRun(c, p + Len(lines))

\* C1: when trim, filter_quality or extract returns, its list is the outputs of
\* chunk 1, then those of chunk 2, and so on, each in within-chunk order.
C1_ChunkOrder ==
    ListReturned => acc = Concat([i \in 1..Len(futures) |-> futures[i].result])

\* C2: when trim, filter_quality or extract returns, its list is the list a
\* sequential execution over the file gives, whatever the worker count and
\* the order of completions.
C2_EqualsSequential ==
    ListReturned => acc = SequentialRun(call, 0)

\* C3: count_reads returns the number of records sequential iteration yields.
C3_CountIsIterationLength ==
    (pc = "returned" /\ call.name = "count_reads")
        => (ret.kind = "int" /\ ret.n = Len(Records))

C3_Witness ==
    /\ pc = "returned"
    /\ call.name = "count_reads"
    /\ Len(file) % 4 # 0
    /\ Len(futures) >= 2
    /\ ret.n >= 1

\* C4: an operation called again with the same arguments, right after it
\* returned, returns what the first call returned.
C4_RepeatedCallAgrees ==
    (pc = "returned" /\ last.set /\ last.call = call) => ret = last.ret

\* C5: a failure reaches the caller only when every submitted task has
\* finished, and no list is returned with it.
C5_FailureAfterDrain ==
    pc = "raised" =>
        /\ \A i \in 1..Len(futures) : futures[i].state = "FINISHED"
        /\ ret = NoRet

\* C6: a trailing group of 1, 2 or 3 lines adds nothing: trim and extract give
\* floor(lines / 4) items, count_reads gives that number, filter_quality no more.
C6_TrailingGroupDropped ==
    pc = "returned" =>
        CASE call.name \in {"trim", "extract"} -> Len(acc) = Len(file) \div 4
          [] call.name = "filter_quality"     -> Len(acc) <= Len(file) \div 4
          [] OTHER                            -> ret.n = Len(file) \div 4

\* C7: a bulk operation that returns leaves the line source open at the first
\* line, and every bulk operation reads its first chunk from the first line.
C7_ResetAroundCall ==
    /\ pc = "returned" => (fileOpen /\ pos = 0)
    /\ (pc = "load" /\ futures = <<>>) => (fileOpen /\ pos = 0)
    /\ (pc \in {"load", "gather", "returned", "raised"} /\ futures # <<>>)
            => futures[1].first = 0

C7_Witness ==
    /\ pc = "returned"
    /\ before > 0
    /\ futures # <<>>

\* the records of the file that filter_quality(threshold) is to keep
Kept(threshold) ==
    { r \in Range(Records) :
        /\ r[3] # <<>>
        /\ Sum([k \in 1..Len(r[3]) |-> r[3][k] - 33]) >= threshold * Len(r[3]) }

\* C8: filter_quality returns exactly the records, unchanged, whose quality is
\* non-empty and sums to at least threshold times its length.
C8_FilterKeepsExactly ==
    (pc = "returned" /\ call.name = "filter_quality") =>
        /\ Range(acc) = Kept(call.threshold)
        /\ Len(acc) = Cardinality(Kept(call.threshold))

C8_Witness ==
    /\ pc = "returned"
    /\ call.name = "filter_quality"
    /\ Len(Records) = 2
    /\ Len(acc) = 1
    /\ \E r \in Range(Records) : r[3] = <<>>

\* the characters of s from index a up to Len(s) - b
Excised(s, a, b) == [k \in 1..(Len(s) - a - b) |-> s[a + k]]

\* C9: trim returns one record per record of the file, info unchanged, seq and
\* quality cut from five_prime up to length - three_prime, and both empty when
\* five_prime + three_prime >= len(seq).
C9_TrimCutsBothEnds ==
    (pc = "returned" /\ call.name = "trim") =>
        /\ Len(acc) = Len(Records)
        /\ Range(acc) =
            { IF call.five_prime + call.three_prime >= Len(r[2])
              THEN <<r[1], <<>>, <<>>>>
              ELSE <<r[1], Excised(r[2], call.five_prime, call.three_prime),
                     Excised(r[3], call.five_prime, call.three_prime)>> :
              r \in Range(Records) }

C9_Witness ==
    /\ pc = "returned"
    /\ call.name = "trim"
    /\ call.five_prime = 1
    /\ call.three_prime = 1
    /\ \E k \in 1..Len(acc) : acc[k][2] = <<67, 71>> /\ acc[k][3] = <<73, 73>>
    /\ \E k \in 1..Len(acc) : acc[k][2] = <<>> /\ acc[k][3] = <<>>

\* C10: a record of the file whose seq and quality have one length comes out
\* of trim with seq and quality of one length.
C10_TrimKeepsLengthsEqual ==
    (pc = "returned" /\ call.name = "trim") =>
        \A k \in 1..Len(acc) : \A r \in Range(Records) :
            (r[1] = acc[k][1] /\ Len(r[2]) = Len(r[3]))
                => Len(acc[k][2]) = Len(acc[k][3])

C10_Witness ==
    /\ pc = "returned"
    /\ call.name = "trim"
    /\ call.five_prime + call.three_prime > 0
    /\ \E k \in 1..Len(acc) : \E r \in Range(Records) :
        /\ r[1] = acc[k][1]
        /\ Len(r[2]) = Len(r[3])
        /\ Len(acc[k][2]) > 0
        /\ Len(acc[k][2]) < Len(r[2])

\* C11: of two successive filter_quality calls, the one with the higher
\* threshold returns no record the one with the lower threshold did not return.
C11_FilterMonotone ==
    (pc = "returned" /\ call.name = "filter_quality" /\ last.set
        /\ last.call.name = "filter_quality") =>
        /\ last.call.threshold <= call.threshold
                => Range(ret.list) \subseteq Range(last.ret.list)
        /\ call.threshold <= last.call.threshold
                => Range(last.ret.list) \subseteq Range(ret.list)

C11_Witness ==
    /\ pc = "returned"
    /\ call.name = "filter_quality"
    /\ last.set
    /\ last.call.name = "filter_quality"
    /\ last.call.threshold < call.threshold
    /\ Len(ret.list) = 1
    /\ Len(last.ret.list) = 2

\* C12: extract without save_parquet returns, at position k, seq[start:end] of
\* the k-th record of the file.
C12_ExtractByPosition ==
    (pc = "returned" /\ call.name = "extract" /\ ~call.save_parquet) =>
        \A k \in 1..Len(Records) :
            /\ k <= Len(ret.list)
            /\ ret.list[k] = Slice(Records[k][2], call.start, call.end)

\* C13: never more than worker_count transforms run at once; a chunk submitted
\* while all workers are busy stays queued, behind the chunks submitted before it.
C13_PoolBounded ==
    /\ Cardinality(Running) <= thread
    /\ \A i \in 1..Len(futures) : \A j \in 1..(i - 1) :
            futures[j].state = "PENDING" => futures[i].state = "PENDING"

C13_Witness ==
    /\ Cardinality(Running) = thread
    /\ \E i \in 1..Len(futures) : futures[i].state = "PENDING"

\* the lines the loader has read in the operation
LinesLoaded == Sum([i \in 1..Len(futures) |-> futures[i].nlines])

\* C14: every loaded chunk has one task, which a worker runs at most once and
\* the gather loop merges at most once, and exactly once when the operation
\* returns; the cursor of the line source is where the loader left it.
C14_ChunkHandledOnce ==
    /\ \A i, j \in 1..Len(futures) : futures[i].first = futures[j].first => i = j
    /\ \A i \in 1..Len(futures) :
        /\ futures[i].runs = (IF futures[i].state = "PENDING" THEN 0 ELSE 1)
        /\ futures[i].merges <= 1
        /\ futures[i].merges = 1 => futures[i].state = "FINISHED"
        /\ pc = "returned" => futures[i].merges = 1
    /\ pc \in {"load", "gather", "raised"} => pos = LinesLoaded
    /\ pc = "gather" => pos = Len(file)

C14_Witness ==
    /\ pc = "returned"
    /\ Len(futures) >= 2
    /\ thread = 2
    /\ \A i \in 1..Len(futures) : futures[i].runs = 1 /\ futures[i].merges = 1

\* C19: within one bulk operation every chunk but the last holds chunk_size*4
\* lines and every chunk starts at a line index that is a multiple of 4, so a
\* 4-line record lies in one chunk.
C19_ChunksAligned ==
    \A i \in 1..Len(futures) :
        /\ futures[i].first % 4 = 0
        /\ futures[i].nlines >= 1
        /\ futures[i].nlines <= chunk_size * 4
        /\ i < Len(futures) => futures[i].nlines = chunk_size * 4
        /\ pc \in {"load", "gather", "returned", "raised"} =>
                futures[i].first = (i - 1) * chunk_size * 4

C19_Witness ==
    /\ pc = "gather"
    /\ Len(futures) >= 2
    /\ futures[Len(futures)].nlines < chunk_size * 4
    /\ futures[Len(futures)].first = 4

\* C15: a bulk operation that has been called ends; when no task raises it
\* returns, with every submitted task finished and every result gathered.
C15_OperationEnds ==
    /\ (pc = "load") ~> (pc \in {"returned", "raised"})
    /\ (pc = "load" /\ call.typed) ~>
            /\ pc = "returned"
            /\ \A i \in 1..Len(futures) :
                    futures[i].state = "FINISHED" /\ futures[i].merges = 1

C15_Witness ==
    /\ pc = "returned"
    /\ call.name = "count_reads"
    /\ Len(futures) >= 2
    /\ ret.n = 2
    /\ shutdown

\* the k-th 4-line group of the file as a record: its lines 1, 2 and 4
Group(k) ==
    <<Rstrip(file[4 * k - 3]), Rstrip(file[4 * k - 2]), Rstrip(file[4 * k])>>

\* C16: with no other operation called, the generator has yielded the first
\* groups of the file in file order, has consumed 4 lines for each, and is
\* done only when fewer than 4 lines were left, all groups yielded.
C16_IterateYieldsGroups ==
    gen # "none" =>
        /\ Len(yielded) <= Len(file) \div 4
        /\ \A k \in 1..Len(yielded) : yielded[k] = Group(k)
        /\ gen = "active" => pos = 4 * Len(yielded)
        /\ gen = "done" => (Len(yielded) = Len(file) \div 4 /\ pos = Len(file))

C16_Witness ==
    /\ gen = "done"
    /\ Len(yielded) = 1
    /\ Len(file) = 7

\* C17: whatever the caller calls between two steps of the generator, the
\* generator has yielded the first records of the file, each once, in order.
C17_IterateUndisturbed ==
    gen # "none" =>
        /\ Len(yielded) <= Len(Records)
        /\ yielded = SubSeq(Records, 1, Len(yielded))

\* the orders in which n batches can be merged
Orders(n) == { p \in [1..n -> 1..n] : \A i, j \in 1..n : p[i] = p[j] => i = j }

\* the items of a list, each with the number of times it occurs
Occurrences(s) == { <<x, Cardinality({ k \in 1..Len(s) : s[k] = x })>> : x \in Range(s) }

\* C18: the list trim, filter_quality or extract returns is the batches of the
\* chunks, each once and whole, in its own order, put one after another in
\* some order of the chunks; it has the items of the sequential result.
C18_BatchesPermuted ==
    ListReturned =>
        /\ \E p \in Orders(Len(futures)) :
                acc = Concat([k \in 1..Len(futures) |-> futures[p[k]].result])
        /\ Occurrences(acc) = Occurrences(SequentialRun(call, 0))

C18_Witness ==
    /\ ListReturned
    /\ Len(futures) = 2
    /\ Len(acc) = 2
    /\ acc # SequentialRun(call, 0)

\* C20: when a bulk operation has ended, by return or by exception, its pool
\* has been shut down and the line source is open at the first line.
C20_CleanupOnEveryExit ==
    pc \in {"returned", "raised"} => (shutdown /\ fileOpen /\ pos = 0)

====
